---- MODULE Spec2Model ----
(***************************************************************************)
(* Recording-session lifecycle of VibeTranscribe: the Home page            *)
(* orchestrator (src/app/page.tsx), the Recorder component                 *)
(* (src/components/Recorder.tsx) and the Transcriber's start/finish        *)
(* bookkeeping (src/components/Transcriber.tsx).                           *)
(*                                                                         *)
(* Everything runs on one event loop.  Each action below is one task of    *)
(* that loop: an event handler or the continuation of an await, together   *)
(* with the React re-render and the effects the handler's state updates    *)
(* trigger.  The program state is gathered in the record State; every      *)
(* function of the source is an operator from state record to state        *)
(* record, so that a handler is the composition of the calls it makes.     *)
(*                                                                         *)
(* A getUserMedia call, the MediaStream it yields and the MediaRecorder,   *)
(* AudioContext and interval timer built on that stream share one id; a    *)
(* ref holds such an id, or 0 for null.  Home's display state              *)
(* (progressText, isTranscriptionClosed, the dropdown) does not feed back  *)
(* into the recording lifecycle and is left out.                           *)
(*                                                                         *)
(* Three specifications share the variables.  Spec is the recording        *)
(* lifecycle; it sees of a transcription only that it starts and ends.     *)
(* TranscriptionSpec follows each call of Transcriber.transcribeAudio from *)
(* the blob to the clipboard (src/app/page.tsx, src/electron/main.ts),     *)
(* with the Recorder idle.  DeviceSpec is one call of                      *)
(* getAudioInputDevices (src/utils/audioDevices.ts) for every list of      *)
(* devices the platform can yield.                                         *)
(***************************************************************************)
EXTENDS Integers, Sequences, FiniteSets, TLC

\* ---- bounds of the model ----
MaxRequests == 2
MaxChunks == 2
MaxSilentFrames == 1
NumBins == 2
MaxTranscriptions == 2
MaxDevices == 3
MaxVisualizerEffects == 2
MaxVisualizerAttempts == 4
MaxSilentChecks == 7

\* ---- program constants ----
threshold == 10
minBlobSize == 1000
maxConnectionAttempts == 3
visualizerThreshold == 5
silentChecksBeforeWarning == 6

\* ---- input domains ----
Requests == 1..MaxRequests
Devices == {"", "micB"}
ChunkSizes == {0, 500}
BinValues == {10, 11}
MonitorOutcomes == {"ok", "noctx", "nosource"}
Transcriptions == 1..MaxTranscriptions
VisualizerEffects == 1..MaxVisualizerEffects
VisualizerAttempts == 1..MaxVisualizerAttempts
VisualizerBinValues == {4, 5}
\* A text is the sequence of its words; <<>> is the empty string.
Texts == {<<>>, <<"alpha">>, <<"alpha", "beta">>, <<"alpha", "hi">>}
\* What the fetch of /api/transcribe yields: a 200 response with a text, a
\* response that is not ok, or a rejection.
Responses ==
  {[kind |-> "ok", text |-> t] : t \in Texts}
    \cup {[kind |-> "httpError", text |-> <<>>],
          [kind |-> "rejected", text |-> <<>>]}

VARIABLES
  isMounted,                  \* Recorder: isMounted state
  unmounted,                  \* the component tree has been unmounted
  mediaDevicesAvailable,      \* navigator.mediaDevices exists
  isRecording,                \* Home: isRecording state
  isTranscribing,             \* Home: isTranscribing state
  selectedMicDevice,          \* Home: selectedMicDevice state
  audioBlob,                  \* Home: audioBlob state
  fetchesInFlight,            \* Transcriber: requests to /api/transcribe pending
  mediaRecorderRef,           \* Recorder refs (0 is null)
  audioChunksRef,
  streamRef,
  audioContextRef,
  analyserRef,
  audioDataRef,
  hasMeaningfulAudioRef,
  silentFramesCountRef,
  audioLevelCheckIntervalRef,
  nextRequest,                \* id of the next getUserMedia call
  stream,                     \* per getUserMedia call: its request / MediaStream
  constraint,                 \* per getUserMedia call: the device asked for
  recorder,                   \* per stream: its MediaRecorder
  interval,                   \* per stream: its setInterval timer is scheduled
  audioContext,               \* per stream: its AudioContext
  delivered,                  \* history: non-empty fragments each recorder delivered
  loud,                       \* history: a tick of the session's timer was above threshold
  monitor,                    \* history: how far startAudioLevelCheck got for the stream
  tapAtRelease,               \* history: the streams whose tracks the last task stopped with their timer or graph active
  emitted,                    \* history: the last call of onRecordingComplete
  pageIsMounted,              \* Home: isMounted state
  electronAPI,                \* window.electronAPI exists
  clipboardAPI,               \* navigator.clipboard exists
  isElectronMode,             \* Home: isElectronMode state
  nextTranscription,          \* id of the next transcribeAudio call
  transcription,              \* per transcribeAudio call: its progress
  ipcQueue,                   \* 'transcription-complete' messages on their way to main
  clipboard,                  \* history: the texts handed to a clipboard
  progressText,               \* Home: progressText state
  isTranscriptionClosed,      \* Home: isTranscriptionClosed state
  lastProgressTextRef,        \* Home: lastProgressTextRef
  progressUpdateTimerRef,     \* Home: the pending debounce timer (NoTimer is null)
  audioContextAvailable,      \* new AudioContext() succeeds in this browser
  visualizer,                 \* AudioVisualizer: its state, its refs and its pending retry timers
  visualizerEffects,          \* per run of the AudioVisualizer effect with isRecording: its local variables
  visualizerAttempts,         \* per call of setupAudioContext: its AudioContext, stream and interval timer
  platformDevices,            \* what navigator.mediaDevices.enumerateDevices() yields
  enumeration,                \* position of the call of getAudioInputDevices
  tempStream,                 \* the temporary stream of getAudioInputDevices
  returnedDevices,            \* the list getAudioInputDevices resolved to
  lastOp                      \* history: the task that ran last

vars == <<isMounted, unmounted, mediaDevicesAvailable, isRecording,
          isTranscribing, selectedMicDevice, audioBlob, fetchesInFlight,
          mediaRecorderRef, audioChunksRef, streamRef, audioContextRef,
          analyserRef, audioDataRef, hasMeaningfulAudioRef,
          silentFramesCountRef, audioLevelCheckIntervalRef, nextRequest,
          stream, constraint, recorder, interval, audioContext, delivered,
          loud, monitor, tapAtRelease, emitted, pageIsMounted,
          electronAPI, clipboardAPI, isElectronMode, nextTranscription, transcription, ipcQueue,
          clipboard, progressText, isTranscriptionClosed,
          lastProgressTextRef, progressUpdateTimerRef,
          audioContextAvailable, visualizer, visualizerEffects,
          visualizerAttempts,
          platformDevices, enumeration, tempStream,
          returnedDevices, lastOp>>

\* The program state as one record.  tapAtRelease is gathered anew by
\* every task.
State ==
  [isMounted |-> isMounted, unmounted |-> unmounted,
   mediaDevicesAvailable |-> mediaDevicesAvailable,
   isRecording |-> isRecording, isTranscribing |-> isTranscribing,
   selectedMicDevice |-> selectedMicDevice, audioBlob |-> audioBlob,
   fetchesInFlight |-> fetchesInFlight,
   mediaRecorderRef |-> mediaRecorderRef, audioChunksRef |-> audioChunksRef,
   streamRef |-> streamRef, audioContextRef |-> audioContextRef,
   analyserRef |-> analyserRef, audioDataRef |-> audioDataRef,
   hasMeaningfulAudioRef |-> hasMeaningfulAudioRef,
   silentFramesCountRef |-> silentFramesCountRef,
   audioLevelCheckIntervalRef |-> audioLevelCheckIntervalRef,
   nextRequest |-> nextRequest, stream |-> stream, constraint |-> constraint,
   recorder |-> recorder, interval |-> interval,
   audioContext |-> audioContext, delivered |-> delivered, loud |-> loud,
   monitor |-> monitor, tapAtRelease |-> {},
   emitted |-> emitted, pageIsMounted |-> pageIsMounted,
   electronAPI |-> electronAPI, clipboardAPI |-> clipboardAPI,
   isElectronMode |-> isElectronMode,
   nextTranscription |-> nextTranscription, transcription |-> transcription,
   ipcQueue |-> ipcQueue, clipboard |-> clipboard,
   progressText |-> progressText,
   isTranscriptionClosed |-> isTranscriptionClosed,
   lastProgressTextRef |-> lastProgressTextRef,
   progressUpdateTimerRef |-> progressUpdateTimerRef,
   audioContextAvailable |-> audioContextAvailable,
   visualizer |-> visualizer,
   visualizerEffects |-> visualizerEffects,
   visualizerAttempts |-> visualizerAttempts,
   platformDevices |-> platformDevices, enumeration |-> enumeration,
   tempStream |-> tempStream, returnedDevices |-> returnedDevices,
   lastOp |-> lastOp]

\* The next state is the record s.
Becomes(s) ==
  /\ isMounted' = s.isMounted
  /\ unmounted' = s.unmounted
  /\ mediaDevicesAvailable' = s.mediaDevicesAvailable
  /\ isRecording' = s.isRecording
  /\ isTranscribing' = s.isTranscribing
  /\ selectedMicDevice' = s.selectedMicDevice
  /\ audioBlob' = s.audioBlob
  /\ fetchesInFlight' = s.fetchesInFlight
  /\ mediaRecorderRef' = s.mediaRecorderRef
  /\ audioChunksRef' = s.audioChunksRef
  /\ streamRef' = s.streamRef
  /\ audioContextRef' = s.audioContextRef
  /\ analyserRef' = s.analyserRef
  /\ audioDataRef' = s.audioDataRef
  /\ hasMeaningfulAudioRef' = s.hasMeaningfulAudioRef
  /\ silentFramesCountRef' = s.silentFramesCountRef
  /\ audioLevelCheckIntervalRef' = s.audioLevelCheckIntervalRef
  /\ nextRequest' = s.nextRequest
  /\ stream' = s.stream
  /\ constraint' = s.constraint
  /\ recorder' = s.recorder
  /\ interval' = s.interval
  /\ audioContext' = s.audioContext
  /\ delivered' = s.delivered
  /\ loud' = s.loud
  /\ monitor' = s.monitor
  /\ tapAtRelease' = s.tapAtRelease
  /\ emitted' = s.emitted
  /\ pageIsMounted' = s.pageIsMounted
  /\ electronAPI' = s.electronAPI
  /\ clipboardAPI' = s.clipboardAPI
  /\ isElectronMode' = s.isElectronMode
  /\ nextTranscription' = s.nextTranscription
  /\ transcription' = s.transcription
  /\ ipcQueue' = s.ipcQueue
  /\ clipboard' = s.clipboard
  /\ progressText' = s.progressText
  /\ isTranscriptionClosed' = s.isTranscriptionClosed
  /\ lastProgressTextRef' = s.lastProgressTextRef
  /\ progressUpdateTimerRef' = s.progressUpdateTimerRef
  /\ audioContextAvailable' = s.audioContextAvailable
  /\ visualizer' = s.visualizer
  /\ visualizerEffects' = s.visualizerEffects
  /\ visualizerAttempts' = s.visualizerAttempts
  /\ platformDevices' = s.platformDevices
  /\ enumeration' = s.enumeration
  /\ tempStream' = s.tempStream
  /\ returnedDevices' = s.returnedDevices
  /\ lastOp' = s.lastOp

\* The record of the task that ran last.
Op(name, r, info) == [op |-> name, r |-> r, info |-> info]

\* Blob.size: the byte length of a blob built from a list of fragments.
RECURSIVE BlobSize(_)
BlobSize(parts) ==
  IF parts = <<>> THEN 0 ELSE Head(parts).size + BlobSize(Tail(parts))

\* The empty blob, new Blob([], ...).
EmptyBlob == <<>>

\* Array.reduce((acc, val) => acc + val, 0) over the frequency data.
RECURSIVE SumBins(_)
SumBins(data) ==
  IF data = <<>> THEN 0 ELSE Head(data) + SumBins(Tail(data))

\* avg > threshold, where avg = sum / data.length is an exact quotient.
AboveThreshold(data) == SumBins(data) > threshold * Len(data)

\* MediaRecorder.state of recorder r is "inactive".
Inactive(s, r) == s.recorder[r] # "recording"

\* stream.getTracks().forEach(track => track.stop())
StopTracks(s, r) ==
  IF s.stream[r] = "live"
  THEN [s EXCEPT !.stream[r] = "ended",
                 !.tapAtRelease =
                    IF s.interval[r] \/ s.audioContext[r] = "running"
                    THEN @ \cup {r} ELSE @]
  ELSE s

\* MediaRecorder.stop(): the recorder becomes inactive at once; a final
\* dataavailable event and then the stop event are queued.
RecorderStop(s, r) == [s EXCEPT !.recorder[r] = "flushing"]

\* Recorder.stopAudioLevelCheck
stopAudioLevelCheck(s) ==
  LET s1 == IF s.audioLevelCheckIntervalRef # 0
            THEN [s EXCEPT !.interval[s.audioLevelCheckIntervalRef] = FALSE,
                           !.audioLevelCheckIntervalRef = 0]
            ELSE s
      s2 == IF s1.audioContextRef # 0
               /\ s1.audioContext[s1.audioContextRef] # "closed"
            THEN [s1 EXCEPT !.audioContext[s1.audioContextRef] = "closed",
                            !.audioContextRef = 0]
            ELSE s1
  IN  [s2 EXCEPT !.analyserRef = 0, !.audioDataRef = 0]

\* Recorder.startAudioLevelCheck(stream) for the stream r.  outcome says how
\* far the construction of the analysis graph gets before it throws:
\* "noctx" (new AudioContext throws), "nosource" (createMediaStreamSource
\* throws) or "ok".
startAudioLevelCheck(s, r, outcome) ==
  LET s0 == [s EXCEPT !.hasMeaningfulAudioRef = FALSE,
                      !.silentFramesCountRef = 0,
                      !.monitor[r] = outcome]
      s1 == [s0 EXCEPT !.audioContext[r] = "running",
                       !.audioContextRef = r,
                       !.analyserRef = r]
      s2 == [s1 EXCEPT !.audioDataRef = r,
                       !.audioLevelCheckIntervalRef = r,
                       !.interval[r] = TRUE]
  IN  CASE outcome = "noctx" -> s0
        [] outcome = "nosource" -> s1
        [] OTHER -> s2

\* A timer callback that leaves the latch alone once stop() was called on
\* the recorder of its session.
intervalTick_OnlyWhileRecording(s, r, data) ==
  IF s.analyserRef = 0 \/ s.audioDataRef = 0 THEN s
  ELSE IF AboveThreshold(data)
       THEN IF s.recorder[r] = "recording"
            THEN [s EXCEPT !.hasMeaningfulAudioRef = TRUE,
                           !.silentFramesCountRef = 0,
                           !.loud[r] = TRUE]
            ELSE [s EXCEPT !.silentFramesCountRef = 0]
       ELSE [s EXCEPT !.silentFramesCountRef = @ + 1]

\* The callback of the setInterval of startAudioLevelCheck, for the timer r
\* and the frequency data the analyser returns.
intervalTick(s, r, data) ==
  IF s.analyserRef = 0 \/ s.audioDataRef = 0 THEN s
  ELSE IF AboveThreshold(data)
       THEN [s EXCEPT !.hasMeaningfulAudioRef = TRUE,
                      !.silentFramesCountRef = 0,
                      !.loud[r] = TRUE]
       ELSE [s EXCEPT !.silentFramesCountRef = @ + 1]

\* No debounce timer is pending: progressUpdateTimerRef.current is null.
NoTimer == [id |-> 0, text |-> <<>>, shown |-> 0]

\* text.length, for a text given as the sequence of its words: the words
\* are joined by single spaces.
RECURSIVE Length(_)
Length(text) ==
  IF text = <<>> THEN 0
  ELSE Len(Head(text)) + (IF Len(text) > 1 THEN 1 ELSE 0) + Length(Tail(text))

\* Home.handleTranscriptionStart
handleTranscriptionStart(s) ==
  IF s.unmounted THEN s
  ELSE [s EXCEPT !.isTranscribing = TRUE,
                 !.progressText = <<>>,
                 !.isTranscriptionClosed = FALSE]

\* Home's setProgressText(text)
setProgressText(s, text) ==
  IF s.unmounted THEN s ELSE [s EXCEPT !.progressText = text]

\* Home.handleTranscriptionProgress(text), called by the transcription id
\* after it has shown the given number of words: a text that differs from
\* the last one by less than 5 characters is skipped, any other replaces
\* the pending timer by one of 200 ms.
handleTranscriptionProgress(s, id, shown, text) ==
  IF \/ text = s.lastProgressTextRef
     \/ /\ Length(text) > 0
        /\ Length(s.lastProgressTextRef) > 0
        /\ Length(text) - Length(s.lastProgressTextRef) < 5
  THEN s
  ELSE [s EXCEPT !.lastProgressTextRef = text,
                 !.progressUpdateTimerRef =
                    [id |-> id, text |-> text, shown |-> shown]]

\* The callback of the debounce timer of handleTranscriptionProgress.
progressUpdateTimer(s) ==
  [setProgressText(s, s.progressUpdateTimerRef.text) EXCEPT
     !.progressUpdateTimerRef = NoTimer]

\* Home.handleCloseTranscription
handleCloseTranscription(s) ==
  [s EXCEPT !.isTranscriptionClosed = TRUE, !.progressText = <<>>]

\* Home.handleTranscriptionComplete
handleTranscriptionComplete(s) ==
  IF s.unmounted THEN s ELSE [s EXCEPT !.isTranscribing = FALSE]

\* A transcribeAudio without the blob.size === 0 check: every blob is posted.
transcribeAudio_NoSizeCheck(s, blob) ==
  [handleTranscriptionStart(s) EXCEPT !.fetchesInFlight = @ + 1]

\* Transcriber.transcribeAudio(blob) up to its first await: an empty blob
\* throws before any request is made and is completed with an error text,
\* any other blob is posted to /api/transcribe.
transcribeAudio(s, blob) ==
  LET s1 == handleTranscriptionStart(s)
  IN  IF BlobSize(blob) = 0
      THEN handleTranscriptionComplete(s1)
      ELSE [s1 EXCEPT !.fetchesInFlight = @ + 1]

\* Home.handleRecordingComplete(blob), and the Transcriber effect that the
\* new audioBlob triggers.
handleRecordingComplete(s, blob) ==
  IF s.unmounted THEN s
  ELSE transcribeAudio([s EXCEPT !.audioBlob = [present |-> TRUE,
                                                 parts |-> blob]], blob)

\* The onRecordingComplete prop of the Recorder, called by recorder r.
onRecordingComplete(s, r, blob) ==
  handleRecordingComplete(
    [s EXCEPT !.emitted = [rec |-> r, blob |-> blob]], blob)

\* A stopRecording that stops whatever recorder the ref holds, without the
\* check of its state.
stopRecording_Unguarded(s) ==
  IF s.mediaRecorderRef # 0 THEN RecorderStop(s, s.mediaRecorderRef) ELSE s

\* Recorder.stopRecording
stopRecording(s) ==
  IF s.mediaRecorderRef # 0 /\ ~Inactive(s, s.mediaRecorderRef)
  THEN RecorderStop(s, s.mediaRecorderRef)
  ELSE s

\* A getUserMedia call that always asks for the platform default device.
getUserMedia_DefaultDevice(s) ==
  IF s.nextRequest \notin Requests THEN s
  ELSE [s EXCEPT !.stream[s.nextRequest] = "pending",
                 !.constraint[s.nextRequest] =
                    [exact |-> FALSE, deviceId |-> ""],
                 !.nextRequest = @ + 1]

\* navigator.mediaDevices.getUserMedia({audio: audioConstraints}): the
\* request stays pending until the platform grants or rejects it.
getUserMedia(s) ==
  IF s.nextRequest \notin Requests THEN s
  ELSE [s EXCEPT !.stream[s.nextRequest] = "pending",
                 !.constraint[s.nextRequest] =
                    [exact |-> s.selectedMicDevice # "",
                     deviceId |-> s.selectedMicDevice],
                 !.nextRequest = @ + 1]

\* ---- the audio visualizer ----

\* The local variables of a run of the AudioVisualizer effect before
\* setupAudioContext has assigned them: audioContext, mediaStream and
\* silenceDetector are null (0); isRecording and noAudioDetected are the
\* values of the render the effect belongs to.
NoClosure ==
  [isRecording |-> FALSE, noAudioDetected |-> FALSE, audioContext |-> 0,
   mediaStream |-> 0, silenceDetector |-> 0]

\* A call of setupAudioContext that has not been made.
NoAttempt ==
  [effect |-> 0, context |-> "none", stream |-> "none", detector |-> FALSE]

\* setAudioError, setNoAudioDetected and setIsRetrying: React ignores them
\* once the component is unmounted.
setAudioError(s, error) ==
  IF s.unmounted THEN s ELSE [s EXCEPT !.visualizer.audioError = error]
setNoAudioDetected(s, v) ==
  IF s.unmounted THEN s ELSE [s EXCEPT !.visualizer.noAudioDetected = v]
setIsRetrying(s, v) ==
  IF s.unmounted THEN s ELSE [s EXCEPT !.visualizer.isRetrying = v]

\* if (noAudioTimeoutRef.current) { clearTimeout(...); ... = null }
clearNoAudioTimeout(s) ==
  [s EXCEPT !.visualizer.retryTimers = @ \ {s.visualizer.noAudioTimeoutRef},
            !.visualizer.noAudioTimeoutRef = 0]

\* The catch block of setupAudioContext, in the effect run e: the error is
\* shown, and a retry is scheduled in 1500 ms unless connectionAttemptsRef
\* has reached maxConnectionAttempts.
setupFailed(s, e, error) ==
  LET s1 == setAudioError(s, error)
  IN  IF s1.visualizer.connectionAttemptsRef < maxConnectionAttempts
      THEN [setIsRetrying(s1, TRUE) EXCEPT
              !.visualizer.noAudioTimeoutRef = e,
              !.visualizer.retryTimers = @ \cup {e}]
      ELSE [s1 EXCEPT !.visualizer.connectionAttemptsRef = 0]

\* setupAudioContext of the effect run e, up to its await of getUserMedia.
\* new AudioContext() throws where the browser has none.
setupAudioContext(s, e) ==
  LET a == s.visualizer.nextAttempt
      s1 == setNoAudioDetected(setAudioError(s, ""), FALSE)
      s2 == setIsRetrying(
              [s1 EXCEPT !.visualizer.silenceDetectionCountRef = 0], FALSE)
      s3 == [clearNoAudioTimeout(s2) EXCEPT !.visualizer.nextAttempt = a + 1]
  IN  IF ~s.visualizerEffects[e].isRecording THEN s
      ELSE IF ~s.audioContextAvailable
           THEN setupFailed(
                  [s3 EXCEPT !.visualizerAttempts[a] =
                               [NoAttempt EXCEPT !.effect = e]],
                  e, "visualization")
           ELSE [s3 EXCEPT
                   !.visualizerAttempts[a] =
                      [effect |-> e, context |-> "open",
                       stream |-> "pending", detector |-> FALSE],
                   !.visualizerEffects[e].audioContext = a,
                   !.visualizer.connectionAttemptsRef = @ + 1]

\* setupAudioContext after its await, when the stream of the call a was
\* granted: the counter is reset, then the source, the analyser and the
\* interval timer are created.  sourceOk is FALSE when
\* audioContext.createMediaStreamSource throws.
setupAudioContextGranted(s, a, sourceOk) ==
  LET e == s.visualizerAttempts[a].effect
      s1 == [s EXCEPT !.visualizerAttempts[a].stream = "live",
                      !.visualizerEffects[e].mediaStream = a,
                      !.visualizer.connectionAttemptsRef = 0]
  IN  IF ~sourceOk
      THEN setupFailed(s1, e, "visualization")
      ELSE [s1 EXCEPT !.visualizer.analyserRef = a,
                      !.visualizerAttempts[a].detector = TRUE,
                      !.visualizerEffects[e].silenceDetector = a]

\* setupAudioContext after its await, when getUserMedia rejected.
setupAudioContextRejected(s, a) ==
  setupFailed([s EXCEPT !.visualizerAttempts[a].stream = "rejected"],
              s.visualizerAttempts[a].effect, "microphone")

\* The callback of the retry timer of the effect run e.
retryTimer(s, e) ==
  setupAudioContext(
    setIsRetrying([s EXCEPT !.visualizer.retryTimers = @ \ {e}], FALSE), e)

\* Array.from(dataArray).every(value => value < threshold)
isSilent(data) == \A i \in DOMAIN data : data[i] < visualizerThreshold

\* The callback of the interval timer of the call a, for the frequency data
\* the analyser yields.  noAudioDetected is the constant of the render the
\* effect run belongs to.
silenceDetector(s, a, data) ==
  LET closure == s.visualizerEffects[s.visualizerAttempts[a].effect]
  IN  IF s.visualizer.analyserRef = 0 THEN s
      ELSE IF isSilent(data)
      THEN LET s1 == [s EXCEPT !.visualizer.silenceDetectionCountRef = @ + 1]
           IN  IF /\ s1.visualizer.silenceDetectionCountRef
                       > silentChecksBeforeWarning
                  /\ ~closure.noAudioDetected
               THEN setNoAudioDetected(s1, TRUE)
               ELSE s1
      ELSE [(IF closure.noAudioDetected
             THEN setNoAudioDetected(s, FALSE) ELSE s)
              EXCEPT !.visualizer.silenceDetectionCountRef = 0]

\* cleanup of an effect run with the given local variables.
cleanup(s, closure) ==
  LET s1 == IF closure.silenceDetector # 0
            THEN [s EXCEPT
                    !.visualizerAttempts[closure.silenceDetector].detector =
                       FALSE]
            ELSE s
      s2 == clearNoAudioTimeout(s1)
      s3 == IF /\ closure.mediaStream # 0
               /\ s2.visualizerAttempts[closure.mediaStream].stream = "live"
            THEN [s2 EXCEPT
                    !.visualizerAttempts[closure.mediaStream].stream = "ended"]
            ELSE s2
      s4 == IF /\ closure.audioContext # 0
               /\ s3.visualizerAttempts[closure.audioContext].context = "open"
            THEN [s3 EXCEPT
                    !.visualizerAttempts[closure.audioContext].context =
                       "closed"]
            ELSE s3
      s5 == setIsRetrying(setNoAudioDetected(setAudioError(s4, ""), FALSE),
                          FALSE)
  IN  [s5 EXCEPT !.visualizer.connectionAttemptsRef = 0]

\* The local variables of the effect run whose cleanup React calls next.
CurrentClosure(s) ==
  IF s.visualizer.current = 0 THEN NoClosure
  ELSE s.visualizerEffects[s.visualizer.current]

\* The body of the AudioVisualizer effect on [isRecording,
\* selectedMicDevice], in a render with the given noAudioDetected.
visualizerEffectBody(s, renderedNoAudioDetected) ==
  LET e == s.visualizer.nextEffect
  IN  IF s.isRecording
      THEN setupAudioContext(
             [s EXCEPT !.visualizer.current = e,
                       !.visualizer.nextEffect = e + 1,
                       !.visualizerEffects[e] =
                          [NoClosure EXCEPT
                             !.isRecording = TRUE,
                             !.noAudioDetected = renderedNoAudioDetected]],
             e)
      ELSE cleanup([s EXCEPT !.visualizer.current = 0], NoClosure)

\* A change of isRecording or selectedMicDevice re-runs the effect of the
\* mounted AudioVisualizer: the cleanup of the last run, then the body.
VisualizerEffect(s) ==
  IF ~s.visualizer.mounted THEN s
  ELSE visualizerEffectBody(cleanup(s, CurrentClosure(s)),
                            s.visualizer.noAudioDetected)

\* The unmount of the AudioVisualizer runs the cleanup of the last run.
visualizerUnmount(s) ==
  IF s.visualizer.mounted THEN cleanup(s, CurrentClosure(s)) ELSE s

\* AudioVisualizer.handleRetryConnection, the Retry button.
handleRetryConnection(s) ==
  IF ~s.isRecording THEN s
  ELSE setIsRetrying(
         [setAudioError(s, "") EXCEPT !.visualizer.connectionAttemptsRef = 0],
         FALSE)

RECURSIVE setIsRecording(_, _)
RECURSIVE startRecording(_)
RECURSIVE RecorderEffect(_)

\* Recorder.startRecording up to its await of getUserMedia.
startRecording(s) ==
  IF ~s.isMounted THEN s
  ELSE LET s1 == IF s.streamRef # 0
                 THEN [StopTracks(s, s.streamRef) EXCEPT !.streamRef = 0]
                 ELSE s
           s2 == stopAudioLevelCheck(s1)
           s3 == [s2 EXCEPT !.audioChunksRef = <<>>,
                            !.hasMeaningfulAudioRef = FALSE]
       IN  IF ~s3.mediaDevicesAvailable
           THEN setIsRecording(s3, FALSE)
           ELSE getUserMedia(s3)

\* The effect of the Recorder on [isRecording, startRecording,
\* stopRecording, isMounted].
RecorderEffect(s) ==
  IF ~s.isMounted THEN s
  ELSE IF s.isRecording THEN startRecording(s)
  ELSE IF s.mediaRecorderRef # 0 /\ ~Inactive(s, s.mediaRecorderRef)
       THEN stopRecording(s)
       ELSE s

\* Home's setIsRecording(v): a changed value re-renders and re-runs the
\* Recorder's effect; an equal value, or an unmounted tree, changes nothing.
setIsRecording(s, v) ==
  IF s.unmounted \/ s.isRecording = v THEN s
  ELSE VisualizerEffect(RecorderEffect([s EXCEPT !.isRecording = v]))

\* A start handler that toggles the recording instead of only starting it.
startRecordingHandler_Toggle(s) ==
  IF ~s.isTranscribing THEN setIsRecording(s, ~s.isRecording) ELSE s

\* A start handler that does not look at isTranscribing.
startRecordingHandler_IgnoresTranscribing(s) ==
  IF ~s.isRecording THEN setIsRecording(s, TRUE) ELSE s

\* Home.startRecordingHandler
startRecordingHandler(s) ==
  IF ~s.isRecording /\ ~s.isTranscribing
  THEN [setIsRecording(s, TRUE) EXCEPT !.progressText = <<>>,
                                       !.isTranscriptionClosed = FALSE]
  ELSE s

\* A stop handler that toggles the recording instead of only stopping it.
stopRecordingHandler_Toggle(s) == setIsRecording(s, ~s.isRecording)

\* Home.stopRecordingHandler
stopRecordingHandler(s) ==
  IF s.isRecording THEN setIsRecording(s, FALSE) ELSE s

\* Home.selectMicDevice(deviceId): the new selectedMicDevice gives the
\* Recorder a new startRecording, which re-runs its effect.
selectMicDevice(s, deviceId) ==
  IF s.selectedMicDevice = deviceId THEN s
  ELSE VisualizerEffect(
         RecorderEffect([s EXCEPT !.selectedMicDevice = deviceId]))

\* Recorder.startRecording after its await, when the stream r was granted.
\* recorderOk is FALSE when new MediaRecorder or mediaRecorder.start throws.
startRecordingGranted(s, r, outcome, recorderOk) ==
  LET s1 == [s EXCEPT !.stream[r] = "live", !.streamRef = r]
      s2 == startAudioLevelCheck(s1, r, outcome)
  IN  IF recorderOk
      THEN [s2 EXCEPT !.mediaRecorderRef = r, !.recorder[r] = "recording"]
      ELSE setIsRecording(s2, FALSE)

\* The catch block of Recorder.startRecording, when the request r rejects.
startRecordingRejected(s, r) ==
  setIsRecording([s EXCEPT !.stream[r] = "rejected"], FALSE)

\* mediaRecorder.ondataavailable of recorder r for a fragment of the given
\* size; a fragment is identified by its recorder and its number.
ondataavailable(s, r, size) ==
  IF size > 0
  THEN LET frag == [rec |-> r, n |-> Len(s.delivered[r]) + 1, size |-> size]
       IN  [s EXCEPT !.audioChunksRef = Append(@, frag),
                     !.delivered[r] = Append(@, frag)]
  ELSE s

\* mediaRecorder.onstop of recorder r.
onstop(s, r) ==
  LET s1 == stopAudioLevelCheck(s)
      audioBlobParts == s1.audioChunksRef
      s2 == IF ~s1.hasMeaningfulAudioRef
               \/ BlobSize(audioBlobParts) < minBlobSize
            THEN onRecordingComplete(s1, r, EmptyBlob)
            ELSE IF BlobSize(audioBlobParts) > 0
                 THEN onRecordingComplete(s1, r, audioBlobParts)
                 ELSE s1
  IN  IF Len(s1.audioChunksRef) = 0
      THEN setIsRecording(s1, FALSE)
      ELSE IF s2.streamRef # 0
           THEN [StopTracks(s2, s2.streamRef) EXCEPT !.streamRef = 0]
           ELSE s2

\* The cleanup of the Recorder's mount effect.
unmountCleanup(s) ==
  LET s1 == stopAudioLevelCheck(s)
      s2 == IF s1.mediaRecorderRef # 0 /\ ~Inactive(s1, s1.mediaRecorderRef)
            THEN RecorderStop(s1, s1.mediaRecorderRef)
            ELSE s1
      s3 == IF s2.streamRef # 0 THEN StopTracks(s2, s2.streamRef) ELSE s2
  IN  IF s3.audioContextRef # 0
         /\ s3.audioContext[s3.audioContextRef] # "closed"
      THEN [s3 EXCEPT !.audioContext[s3.audioContextRef] = "closed"]
      ELSE s3

\* ---- the state after the first render ----

\* The Recorder and Home's recording state after construction.
RecorderIdle ==
  /\ isMounted = FALSE
  /\ unmounted = FALSE
  /\ isRecording = FALSE
  /\ isTranscribing = FALSE
  /\ selectedMicDevice = ""
  /\ audioBlob = [present |-> FALSE, parts |-> <<>>]
  /\ fetchesInFlight = 0
  /\ mediaRecorderRef = 0
  /\ audioChunksRef = <<>>
  /\ streamRef = 0
  /\ audioContextRef = 0
  /\ analyserRef = 0
  /\ audioDataRef = 0
  /\ hasMeaningfulAudioRef = FALSE
  /\ silentFramesCountRef = 0
  /\ audioLevelCheckIntervalRef = 0
  /\ nextRequest = 1
  /\ stream = [r \in Requests |-> "unused"]
  /\ constraint = [r \in Requests |-> [exact |-> FALSE, deviceId |-> ""]]
  /\ recorder = [r \in Requests |-> "none"]
  /\ interval = [r \in Requests |-> FALSE]
  /\ audioContext = [r \in Requests |-> "none"]
  /\ delivered = [r \in Requests |-> <<>>]
  /\ loud = [r \in Requests |-> FALSE]
  /\ monitor = [r \in Requests |-> "none"]
  /\ tapAtRelease = {}
  /\ emitted = [rec |-> 0, blob |-> <<>>]
  /\ lastOp = Op("Init", 0, "")

\* Home's transcription state after construction; no transcription is under
\* way and nothing has been handed to a clipboard.
TranscriberIdle ==
  /\ pageIsMounted = FALSE
  /\ isElectronMode = FALSE
  /\ nextTranscription = 1
  /\ transcription =
       [id \in Transcriptions |->
          [state |-> "unused", text |-> <<>>, shown |-> 0]]
  /\ ipcQueue = <<>>
  /\ clipboard = <<>>
  /\ progressText = <<>>
  /\ isTranscriptionClosed = FALSE
  /\ lastProgressTextRef = <<>>
  /\ progressUpdateTimerRef = NoTimer

\* The AudioVisualizer is not mounted.
VisualizerIdle ==
  /\ visualizer =
       [mounted |-> FALSE, audioError |-> "", noAudioDetected |-> FALSE,
        isRetrying |-> FALSE, silenceDetectionCountRef |-> 0,
        connectionAttemptsRef |-> 0, noAudioTimeoutRef |-> 0,
        analyserRef |-> 0, current |-> 0, nextEffect |-> 1,
        nextAttempt |-> 1, retryTimers |-> {}]
  /\ visualizerEffects = [e \in VisualizerEffects |-> NoClosure]
  /\ visualizerAttempts = [a \in VisualizerAttempts |-> NoAttempt]

\* getAudioInputDevices has not been called.
EnumerationIdle ==
  /\ enumeration = "idle"
  /\ tempStream = "none"
  /\ returnedDevices = <<>>

Init ==
  /\ mediaDevicesAvailable \in BOOLEAN
  /\ electronAPI = FALSE
  /\ clipboardAPI = FALSE
  /\ platformDevices = <<>>
  /\ RecorderIdle
  /\ TranscriberIdle
  /\ EnumerationIdle
  /\ audioContextAvailable = TRUE
  /\ VisualizerIdle

\* A further getUserMedia call stays within the bound of the model.
CanRequest == nextRequest \in Requests

\* A further call of setupAudioContext, and a further run of the
\* visualizer's effect with it, stay within the bounds of the model.
CanRetry == visualizer.nextAttempt \in VisualizerAttempts
CanSetup == CanRetry /\ visualizer.nextEffect \in VisualizerEffects

\* ---- the tasks of the event loop ----

\* The Recorder's mount effect: setIsMounted(true), and the effects that
\* depend on isMounted run again.
Mount ==
  /\ ~isMounted /\ ~unmounted
  /\ isRecording /\ mediaDevicesAvailable => CanRequest
  /\ Becomes([RecorderEffect([State EXCEPT !.isMounted = TRUE])
                EXCEPT !.lastOp = Op("Mount", 0, "")])

\* A start signal (shortcut, IPC message or button): startRecordingHandler.
StartSignal ==
  /\ ~unmounted
  /\ (~isRecording /\ ~isTranscribing /\ isMounted /\ mediaDevicesAvailable)
        => CanRequest
  /\ (~isRecording /\ ~isTranscribing /\ visualizer.mounted) => CanSetup
  /\ Becomes([startRecordingHandler(State) EXCEPT !.lastOp =
        Op("StartSignal", 0,
           IF ~isRecording /\ ~isTranscribing THEN "accepted"
                                              ELSE "ignored")])

\* A stop signal (shortcut, IPC message or button): stopRecordingHandler.
StopSignal ==
  /\ ~unmounted
  /\ Becomes([stopRecordingHandler(State) EXCEPT !.lastOp =
        Op("StopSignal", 0, IF isRecording THEN "accepted" ELSE "ignored")])

\* The user picks another microphone in the dropdown.
SelectMic ==
  \E d \in Devices :
    /\ ~unmounted
    /\ d # selectedMicDevice
    /\ (isRecording /\ isMounted /\ mediaDevicesAvailable) => CanRequest
    /\ (isRecording /\ visualizer.mounted) => CanSetup
    /\ Becomes([selectMicDevice(State, d) EXCEPT !.lastOp =
          Op("SelectMic", 0, "")])

\* The platform grants a pending getUserMedia request.
GrantStream ==
  \E r \in Requests, outcome \in MonitorOutcomes, recorderOk \in BOOLEAN :
    /\ stream[r] = "pending"
    /\ Becomes([startRecordingGranted(State, r, outcome, recorderOk)
                  EXCEPT !.lastOp =
          Op("GrantStream", r, IF recorderOk THEN outcome ELSE "throws")])

\* The platform rejects a pending getUserMedia request.
RejectStream ==
  \E r \in Requests :
    /\ stream[r] = "pending"
    /\ Becomes([startRecordingRejected(State, r) EXCEPT !.lastOp =
          Op("RejectStream", r, "")])

\* A recording recorder delivers the fragment of a timeslice (empty once the
\* tracks of its stream have ended).
DataAvailable ==
  \E r \in Requests, size \in ChunkSizes :
    /\ recorder[r] = "recording"
    /\ size > 0 => stream[r] = "live" /\ Len(audioChunksRef) < MaxChunks
    /\ Becomes([ondataavailable(State, r, size) EXCEPT !.lastOp =
          Op("DataAvailable", r, IF size > 0 THEN "kept" ELSE "dropped")])

\* A stopped recorder delivers its final fragment.
FinalData ==
  \E r \in Requests, size \in ChunkSizes :
    /\ recorder[r] = "flushing"
    /\ size > 0 => Len(audioChunksRef) < MaxChunks
    /\ Becomes([ondataavailable(State, r, size) EXCEPT
          !.recorder[r] = "stopping",
          !.lastOp =
            Op("FinalData", r, IF size > 0 THEN "kept" ELSE "dropped")])

\* The stop event of a stopped recorder.
OnStop ==
  \E r \in Requests :
    /\ recorder[r] = "stopping"
    /\ Becomes([onstop([State EXCEPT !.recorder[r] = "done"], r) EXCEPT
          !.lastOp =
            Op("OnStop", r,
               IF Len(audioChunksRef) = 0 THEN "nochunks"
               ELSE IF ~hasMeaningfulAudioRef
                       \/ BlobSize(audioChunksRef) < minBlobSize
                    THEN "sentinel" ELSE "artifact")])

\* A sampling timer fires.
Tick ==
  \E r \in Requests, data \in [1..NumBins -> BinValues] :
    /\ interval[r]
    /\ (analyserRef # 0 /\ audioDataRef # 0 /\ ~AboveThreshold(data))
          => silentFramesCountRef < MaxSilentFrames
    /\ Becomes([intervalTick(State, r, data) EXCEPT !.lastOp =
          Op("Tick", r,
             IF analyserRef = 0 \/ audioDataRef = 0 THEN "skipped"
             ELSE IF ~AboveThreshold(data) THEN "silent"
             ELSE IF hasMeaningfulAudioRef THEN "loud" ELSE "latched")])

\* The platform stops a recorder all of whose tracks have ended.
TracksEnded ==
  \E r \in Requests :
    /\ recorder[r] = "recording"
    /\ stream[r] = "ended"
    /\ Becomes([RecorderStop(State, r) EXCEPT !.lastOp =
          Op("TracksEnded", r, "")])

\* The component tree is unmounted.
Unmount ==
  /\ ~unmounted
  /\ Becomes([visualizerUnmount(
                IF isMounted THEN unmountCleanup(State) ELSE State) EXCEPT
        !.unmounted = TRUE,
        !.progressUpdateTimerRef = NoTimer,
        !.lastOp = Op("Unmount", 0, "")])

\* A request to /api/transcribe returns, with a transcript or an error.
FetchReturns ==
  /\ fetchesInFlight > 0
  /\ Becomes([handleTranscriptionComplete(
                [State EXCEPT !.fetchesInFlight = @ - 1])
                EXCEPT !.lastOp = Op("FetchReturns", 0, "")])

Next ==
  \/ Mount
  \/ StartSignal
  \/ StopSignal
  \/ SelectMic
  \/ GrantStream
  \/ RejectStream
  \/ DataAvailable
  \/ FinalData
  \/ OnStop
  \/ Tick
  \/ TracksEnded
  \/ Unmount
  \/ FetchReturns

Spec == Init /\ [][Next]_vars

TypeOK ==
  /\ isRecording \in BOOLEAN
  /\ mediaRecorderRef \in 0..MaxRequests
  /\ streamRef \in 0..MaxRequests
  /\ Len(audioChunksRef) <= MaxChunks
  /\ silentFramesCountRef \in 0..MaxSilentFrames
  /\ nextRequest \in 1..(MaxRequests + 1)

\* ---- the transcription of a recording ----

\* The blobs Home receives from the Recorder: the empty blob, or an
\* artifact of at least minBlobSize bytes.
Artifacts ==
  {EmptyBlob, <<[rec |-> 1, n |-> 1, size |-> minBlobSize]>>}

\* "Error: " + errorMessage
ErrorText(errorMessage) == <<"Error:", errorMessage>>

\* A handleTranscriptionComplete that only knows the browser's clipboard.
copyToClipboard_BrowserOnly(s, id, text) ==
  IF s.pageIsMounted /\ s.clipboardAPI
  THEN [s EXCEPT !.clipboard =
          Append(@, [id |-> id, text |-> text, sink |-> "browser"])]
  ELSE s

\* The hand-over of the text at the end of Home.handleTranscriptionComplete:
\* to the main process in Electron mode, else to navigator.clipboard when
\* it exists.
copyToClipboard(s, id, text) ==
  IF s.isElectronMode
  THEN [s EXCEPT !.ipcQueue = Append(@, [id |-> id, text |-> text])]
  ELSE IF s.pageIsMounted /\ s.clipboardAPI
       THEN [s EXCEPT !.clipboard =
               Append(@, [id |-> id, text |-> text, sink |-> "browser"])]
       ELSE s

\* The onTranscriptionComplete prop of the Transcriber, called by the
\* transcription id: Home.handleTranscriptionComplete(text).
onTranscriptionComplete(s, id, text, outcome) ==
  copyToClipboard(
    [handleTranscriptionComplete(setProgressText(s, text))
       EXCEPT !.transcription[id].state = outcome],
    id, text)

\* Transcriber.transcribeAudio(blob) for the transcription id, up to its
\* await of fetch.
transcribeAudioUntilFetch(s, id, blob) ==
  LET s1 == handleTranscriptionStart(
              [s EXCEPT !.transcription[id].state = "fetching",
                        !.nextTranscription = @ + 1])
  IN  IF BlobSize(blob) = 0
      THEN onTranscriptionComplete(s1, id, ErrorText("empty recording"),
                                   "failed")
      ELSE s1

\* A transcribeAudio without its catch block: a failure ends the call and
\* nothing is reported to Home.
transcribeAudioAfterFetch_NoCatch(s, id, response) ==
  IF response.kind # "ok" \/ response.text = <<>>
  THEN [s EXCEPT !.transcription[id].state = "failed"]
  ELSE handleTranscriptionProgress(
         [s EXCEPT !.transcription[id] =
            [state |-> "streaming", text |-> response.text, shown |-> 1]],
         id, 1, SubSeq(response.text, 1, 1))

\* Transcriber.transcribeAudio after its await of fetch and of
\* response.json(), up to the first await of the progress loop.
transcribeAudioAfterFetch(s, id, response) ==
  IF response.kind # "ok"
  THEN onTranscriptionComplete(s, id, ErrorText(response.kind), "failed")
  ELSE IF response.text = <<>>
       THEN onTranscriptionComplete(s, id, ErrorText("empty text"), "failed")
       ELSE handleTranscriptionProgress(
              [s EXCEPT !.transcription[id] =
                 [state |-> "streaming", text |-> response.text,
                  shown |-> 1]],
              id, 1, SubSeq(response.text, 1, 1))

\* Transcriber.transcribeAudio after an await of its progress loop: the next
\* word is shown, or the loop is over and the transcript is handed to
\* onTranscriptionComplete.
transcribeAudioAfterDelay(s, id) ==
  IF s.transcription[id].shown < Len(s.transcription[id].text)
  THEN handleTranscriptionProgress(
         [s EXCEPT !.transcription[id].shown = @ + 1],
         id, s.transcription[id].shown + 1,
         SubSeq(s.transcription[id].text, 1, s.transcription[id].shown + 1))
  ELSE onTranscriptionComplete(s, id, s.transcription[id].text, "succeeded")

\* The handler of 'transcription-complete' in the main process.
ipcMainOnTranscriptionComplete(s) ==
  LET message == Head(s.ipcQueue)
  IN  [s EXCEPT !.ipcQueue = Tail(@),
                !.clipboard = Append(@, [id |-> message.id,
                                         text |-> message.text,
                                         sink |-> "electron"])]

\* The state after the first render of Home, in a browser or in Electron.
TranscriptionInit ==
  /\ mediaDevicesAvailable = TRUE
  /\ electronAPI \in BOOLEAN
  /\ clipboardAPI \in BOOLEAN
  /\ platformDevices = <<>>
  /\ RecorderIdle
  /\ TranscriberIdle
  /\ EnumerationIdle
  /\ audioContextAvailable = TRUE
  /\ VisualizerIdle

\* Home's mount effect: setIsMounted(true), setIsElectronMode(isElectron()).
PageMount ==
  /\ ~pageIsMounted /\ ~unmounted
  /\ Becomes([State EXCEPT !.pageIsMounted = TRUE,
                           !.isElectronMode = electronAPI,
                           !.lastOp = Op("PageMount", 0, "")])

\* The Recorder hands a blob to Home.handleRecordingComplete; the new
\* audioBlob makes the Transcriber's effect call transcribeAudio.
RecordingComplete ==
  \E blob \in Artifacts :
    /\ pageIsMounted /\ ~unmounted
    /\ nextTranscription \in Transcriptions
    /\ Becomes([transcribeAudioUntilFetch(
                   [State EXCEPT !.audioBlob = [present |-> TRUE,
                                                parts |-> blob]],
                   nextTranscription, blob)
                  EXCEPT !.lastOp =
          Op("RecordingComplete", nextTranscription,
             IF BlobSize(blob) = 0 THEN "empty" ELSE "posted")])

\* The fetch of a transcription returns.
FetchResponds ==
  \E id \in Transcriptions, response \in Responses :
    /\ transcription[id].state = "fetching"
    /\ Becomes([transcribeAudioAfterFetch(State, id, response) EXCEPT
          !.lastOp = Op("FetchResponds", id, response.kind)])

\* A 50 ms delay of the progress loop of a transcription is over.
ProgressDelay ==
  \E id \in Transcriptions :
    /\ transcription[id].state = "streaming"
    /\ Becomes([transcribeAudioAfterDelay(State, id) EXCEPT
          !.lastOp = Op("ProgressDelay", id, "")])

\* The main process receives a 'transcription-complete' message.
MainReceives ==
  /\ ipcQueue # <<>>
  /\ Becomes([ipcMainOnTranscriptionComplete(State) EXCEPT
        !.lastOp = Op("MainReceives", Head(ipcQueue).id, "")])

\* The 200 ms of the pending debounce timer are over.  The 50 ms delay
\* that the progress loop started after it had scheduled the timer is
\* over before.
ProgressTimer ==
  /\ progressUpdateTimerRef # NoTimer
  /\ LET t == progressUpdateTimerRef
     IN  \/ transcription[t.id].state # "streaming"
         \/ transcription[t.id].shown > t.shown
  /\ Becomes([progressUpdateTimer(State) EXCEPT
        !.lastOp = Op("ProgressTimer", progressUpdateTimerRef.id, "")])

\* The user closes the transcription box.
CloseTranscription ==
  /\ pageIsMounted /\ ~unmounted
  /\ ~isTranscriptionClosed
  /\ Becomes([handleCloseTranscription(State) EXCEPT
        !.lastOp = Op("CloseTranscription", 0, "")])

TranscriptionNext ==
  \/ PageMount
  \/ RecordingComplete
  \/ FetchResponds
  \/ ProgressDelay
  \/ ProgressTimer
  \/ MainReceives
  \/ Unmount

\* The main process handles every message it is sent.
TranscriptionSpec ==
  TranscriptionInit /\ [][TranscriptionNext]_vars /\ WF_vars(MainReceives)

\* The transcription of recordings while the user starts and stops
\* recordings and closes the transcription box.
ProgressNext ==
  \/ TranscriptionNext
  \/ StartSignal
  \/ StopSignal
  \/ CloseTranscription

ProgressSpec == TranscriptionInit /\ [][ProgressNext]_vars

\* The transcription of recordings when every pending fetch returns and
\* every pending timer of the progress loop fires.
TranscriptionFairSpec ==
  /\ TranscriptionSpec
  /\ WF_vars(FetchResponds)
  /\ WF_vars(ProgressDelay)

\* ---- the audio visualizer while recordings start and stop ----

\* The state after the first render, in a browser with or without an
\* AudioContext; the Visualizer wrapper has not mounted the AudioVisualizer.
VisualizerInit ==
  /\ mediaDevicesAvailable = TRUE
  /\ electronAPI = FALSE
  /\ clipboardAPI = FALSE
  /\ platformDevices = <<>>
  /\ audioContextAvailable \in BOOLEAN
  /\ RecorderIdle
  /\ TranscriberIdle
  /\ EnumerationIdle
  /\ VisualizerIdle

\* The Visualizer wrapper's mount effect sets isMounted, the
\* AudioVisualizer is rendered and its effect runs for the first time.
VisualizerMount ==
  /\ ~visualizer.mounted /\ ~unmounted
  /\ isRecording => CanSetup
  /\ Becomes([visualizerEffectBody(
                [State EXCEPT !.visualizer.mounted = TRUE], FALSE)
                EXCEPT !.lastOp = Op("VisualizerMount", 0, "")])

\* The platform grants the stream that a call of setupAudioContext asked
\* for.
VisualizerStreamGranted ==
  \E a \in VisualizerAttempts, sourceOk \in BOOLEAN :
    /\ visualizerAttempts[a].stream = "pending"
    /\ Becomes([setupAudioContextGranted(State, a, sourceOk) EXCEPT
          !.lastOp = Op("VisualizerStreamGranted", a,
                        IF sourceOk THEN "ok" ELSE "throws")])

\* The platform rejects the stream request of a call of setupAudioContext.
VisualizerStreamRejected ==
  \E a \in VisualizerAttempts :
    /\ visualizerAttempts[a].stream = "pending"
    /\ Becomes([setupAudioContextRejected(State, a) EXCEPT
          !.lastOp = Op("VisualizerStreamRejected", a, "")])

\* The 1500 ms of a retry timer are over.
RetryTimer ==
  \E e \in visualizer.retryTimers :
    /\ CanRetry
    /\ Becomes([retryTimer(State, e) EXCEPT
          !.lastOp = Op("RetryTimer", e, "")])

\* The 500 ms interval timer of a call of setupAudioContext fires.
SilenceCheck ==
  \E a \in VisualizerAttempts, data \in [1..NumBins -> VisualizerBinValues] :
    /\ visualizerAttempts[a].detector
    /\ isSilent(data) =>
         visualizer.silenceDetectionCountRef < MaxSilentChecks
    /\ Becomes([silenceDetector(State, a, data) EXCEPT
          !.lastOp = Op("SilenceCheck", a,
                        IF isSilent(data) THEN "silent" ELSE "sound")])

\* The user presses the Retry button of the error message.
RetryButton ==
  /\ visualizer.mounted /\ ~unmounted
  /\ isRecording /\ visualizer.audioError # ""
  /\ Becomes([handleRetryConnection(State) EXCEPT
        !.lastOp = Op("RetryButton", 0, "")])

VisualizerNext ==
  \/ VisualizerMount
  \/ StartSignal
  \/ StopSignal
  \/ SelectMic
  \/ VisualizerStreamGranted
  \/ VisualizerStreamRejected
  \/ RetryTimer
  \/ SilenceCheck
  \/ RetryButton
  \/ Unmount

VisualizerSpec == VisualizerInit /\ [][VisualizerNext]_vars

\* ---- the list of microphones ----

\* The hardware ids that occur in labels, character by character.
NoHardwareId == <<>>
HardwareIds ==
  {<<"a", "b", ":", "1", "2">>, <<"c", "a", "b", ":", "1", "2", "3">>}

\* A label is kept by its parts.  It reads: the prefix, then "Microphone "
\* if microphone is set, then the name, then " (paren)" if paren is not
\* empty, then " (hw)" if there is a hardware id.  Every name is a text
\* without parentheses that does not start with a prefix or "Microphone".
Labels ==
  [prefix : {"", "Default - ", "Communications - "},
   microphone : BOOLEAN,
   name : {"Array"},
   paren : {""},
   hw : HardwareIds \cup {NoHardwareId}]

\* The empty label of a device.
EmptyLabel ==
  [prefix |-> "", microphone |-> FALSE, name |-> "", paren |-> "",
   hw |-> NoHardwareId]

\* `Microphone ${device.deviceId.slice(0, 5)}...`
FallbackLabel(deviceId) ==
  [prefix |-> "", microphone |-> TRUE,
   name |-> (IF deviceId = "default" THEN "defau..." ELSE deviceId \o "..."),
   paren |-> "", hw |-> NoHardwareId]

DeviceIds == {"default", "", "x", "y"}

\* The MediaDeviceInfo objects of the platform.
MediaDeviceInfos ==
  [kind : {"audioinput"}, deviceId : DeviceIds,
   label : Labels \cup {EmptyLabel}]
    \cup [kind : {"audiooutput"}, deviceId : DeviceIds, label : {EmptyLabel}]

\* Labels with a device name in parentheses before the hardware id:
\* "Default - Mic (Realtek)(abcd:1234)", "Mic (Realtek)(abcd:1234)" and
\* "USB Mic (ef01:5678)".
RealtekLabel(prefix) ==
  [prefix |-> prefix, microphone |-> FALSE, name |-> "Mic",
   paren |-> "Realtek",
   hw |-> <<"a", "b", "c", "d", ":", "1", "2", "3", "4">>]
UsbMicLabel ==
  [prefix |-> "", microphone |-> FALSE, name |-> "USB Mic", paren |-> "",
   hw |-> <<"e", "f", "0", "1", ":", "5", "6", "7", "8">>]

\* A list of three microphones whose device ids are not "default" or "".
ExampleDevices ==
  <<[kind |-> "audioinput", deviceId |-> "A1",
     label |-> RealtekLabel("Default - ")],
    [kind |-> "audioinput", deviceId |-> "A2", label |-> RealtekLabel("")],
    [kind |-> "audioinput", deviceId |-> "B1", label |-> UsbMicLabel]>>

\* The lists enumerateDevices can yield: at most MaxDevices entries, each
\* with a device id of its own, and the list ExampleDevices.
PlatformLists ==
  UNION {{l \in [1..n -> MediaDeviceInfos] :
            \A i, j \in 1..n : i # j => l[i].deviceId # l[j].deviceId}
         : n \in 0..MaxDevices}
    \cup {ExampleDevices}

\* text.replace(/^(Default|Communications) - /, '')
StripPrefix(label) == [label EXCEPT !.prefix = ""]

\* text.replace(/^Microphone\s+/, '')
StripMicrophone(label) ==
  IF label.prefix = "" THEN [label EXCEPT !.microphone = FALSE] ELSE label

\* label.startsWith('Default -')
StartsWithDefault(label) == label.prefix = "Default - "

\* y.includes(x) for two texts given character by character.
IsSubstring(x, y) ==
  \E i \in 0..(Len(y) - Len(x)) : SubSeq(y, i + 1, i + Len(x)) = x

\* label.includes(hardwareId): only the hardware id of a label holds such
\* a text.
Includes(label, hardwareId) ==
  label.hw # NoHardwareId /\ IsSubstring(hardwareId, label.hw)

\* A display name that ignores the parenthesised device name.
extractDisplayName_NameOnly(label) == label.name

\* extractDisplayName(label): the first parenthesised text that is not a
\* hardware id, else the label without prefix, "Microphone " and trailing
\* parentheses.
extractDisplayName(label) ==
  IF label.paren # "" THEN label.paren ELSE label.name

\* array.findIndex(P), given the set of the indices whose entries satisfy
\* P: the first of them, counted from 1, or 0 when there is none.
FindIndex(matching) ==
  IF matching = {} THEN 0
  ELSE CHOOSE i \in matching : \A j \in matching : i <= j

\* The loop without its memory of the hardware ids and names seen: every
\* device is kept.
filterStep_KeepsAll(device, acc) ==
  [acc EXCEPT !.uniqueDevices = Append(@, device)]

\* One round of the loop of filterDuplicateMicrophones, for the device and
\* the sets and the list kept so far.
filterStep(device, acc) ==
  LET hardwareId == device.label.hw
      baseName == StripMicrophone(StripPrefix(device.label))
      sameHardware ==
        {i \in DOMAIN acc.uniqueDevices :
           /\ Includes(acc.uniqueDevices[i].label, hardwareId)
           /\ acc.uniqueDevices[i].isDefault}
      sameName ==
        {i \in DOMAIN acc.uniqueDevices :
           /\ StripPrefix(acc.uniqueDevices[i].label) = baseName
           /\ acc.uniqueDevices[i].isDefault}
      pushed == [acc EXCEPT !.uniqueDevices = Append(@, device)]
      preferred(existingDefaultIndex) ==
        IF existingDefaultIndex > 0
        THEN IF StartsWithDefault(device.label)
             THEN [acc EXCEPT !.uniqueDevices[existingDefaultIndex] = device]
             ELSE acc
        ELSE pushed
  IN  IF hardwareId # NoHardwareId
      THEN IF hardwareId \notin acc.hardwareIds
           THEN [pushed EXCEPT !.hardwareIds = @ \cup {hardwareId}]
           ELSE IF device.isDefault
                THEN preferred(FindIndex(sameHardware))
                ELSE acc
      ELSE IF baseName \notin acc.deviceNames
           THEN [pushed EXCEPT !.deviceNames = @ \cup {baseName}]
           ELSE IF device.isDefault
                THEN preferred(FindIndex(sameName))
                ELSE acc

RECURSIVE filterLoop(_, _)
filterLoop(orderedDevices, acc) ==
  IF orderedDevices = <<>> THEN acc.uniqueDevices
  ELSE filterLoop(Tail(orderedDevices), filterStep(Head(orderedDevices), acc))

IsDefault(device) == device.isDefault
NotDefault(device) == ~device.isDefault
IsAudioInput(device) == device.kind = "audioinput"

\* filterDuplicateMicrophones(devices)
filterDuplicateMicrophones(devices) ==
  filterLoop(SelectSeq(devices, IsDefault) \o SelectSeq(devices, NotDefault),
             [hardwareIds |-> {}, deviceNames |-> {}, uniqueDevices |-> <<>>])

\* The AudioDevice that getAudioInputDevices makes of a MediaDeviceInfo.
AudioDevice(device) ==
  LET label == IF device.label = EmptyLabel
               THEN FallbackLabel(device.deviceId)
               ELSE device.label
  IN  [deviceId |-> device.deviceId,
       label |-> label,
       displayName |-> extractDisplayName(label),
       isDefault |-> device.deviceId = "default" \/ device.deviceId = ""]

\* A sort that puts the default devices last.
SortDefaultFirst_DefaultLast(uniqueDevices) ==
  IF Len(uniqueDevices) > 1
  THEN SelectSeq(uniqueDevices, NotDefault)
         \o SelectSeq(uniqueDevices, IsDefault)
  ELSE uniqueDevices

\* uniqueDevices.sort(...): the sort is stable, default devices come first.
SortDefaultFirst(uniqueDevices) ==
  IF Len(uniqueDevices) > 1
  THEN SelectSeq(uniqueDevices, IsDefault)
         \o SelectSeq(uniqueDevices, NotDefault)
  ELSE uniqueDevices

\* devices.filter(device => device.kind === 'audioinput').map(...)
audioInputDevices(devices) ==
  LET inputs == SelectSeq(devices, IsAudioInput)
  IN  [i \in DOMAIN inputs |-> AudioDevice(inputs[i])]

\* What getAudioInputDevices makes of the list of enumerateDevices.
AudioInputDevices(devices) ==
  SortDefaultFirst(filterDuplicateMicrophones(audioInputDevices(devices)))

\* getAudioInputDevices up to its await of getUserMedia.
getAudioInputDevicesCalled(s) ==
  IF ~s.mediaDevicesAvailable
  THEN [s EXCEPT !.enumeration = "returned", !.returnedDevices = <<>>]
  ELSE [s EXCEPT !.enumeration = "permission"]

\* getAudioInputDevices after the temporary stream was granted, up to its
\* await of enumerateDevices.
getAudioInputDevicesGranted(s) ==
  [s EXCEPT !.tempStream = "live", !.enumeration = "enumerating"]

\* getAudioInputDevices after enumerateDevices resolved.
getAudioInputDevicesEnumerated(s) ==
  [s EXCEPT !.tempStream = "stopped",
            !.enumeration = "returned",
            !.returnedDevices = AudioInputDevices(s.platformDevices)]

\* A catch block that throws the error on to the caller.
getAudioInputDevicesFailed_Rethrows(s) ==
  [s EXCEPT !.enumeration = "rejected"]

\* The catch block of getAudioInputDevices.
getAudioInputDevicesFailed(s) ==
  [s EXCEPT !.enumeration = "returned", !.returnedDevices = <<>>]

\* The state before Home's effect loads the devices, for every list the
\* platform can yield.
DeviceInit ==
  /\ mediaDevicesAvailable \in BOOLEAN
  /\ electronAPI = FALSE
  /\ clipboardAPI = FALSE
  /\ platformDevices \in PlatformLists
  /\ RecorderIdle
  /\ TranscriberIdle
  /\ EnumerationIdle
  /\ audioContextAvailable = TRUE
  /\ VisualizerIdle

\* Home's effect calls getAudioInputDevices.
LoadDevices ==
  /\ enumeration = "idle"
  /\ Becomes([getAudioInputDevicesCalled(State) EXCEPT
        !.lastOp = Op("LoadDevices", 0, "")])

\* The platform grants the temporary stream.
TempStreamGranted ==
  /\ enumeration = "permission"
  /\ Becomes([getAudioInputDevicesGranted(State) EXCEPT
        !.lastOp = Op("TempStreamGranted", 0, "")])

\* The platform refuses the temporary stream.
TempStreamRejected ==
  /\ enumeration = "permission"
  /\ Becomes([getAudioInputDevicesFailed(State) EXCEPT
        !.lastOp = Op("TempStreamRejected", 0, "")])

\* enumerateDevices resolves with the list of the platform.
DevicesEnumerated ==
  /\ enumeration = "enumerating"
  /\ Becomes([getAudioInputDevicesEnumerated(State) EXCEPT
        !.lastOp = Op("DevicesEnumerated", 0, "")])

\* enumerateDevices rejects.
EnumerationFails ==
  /\ enumeration = "enumerating"
  /\ Becomes([getAudioInputDevicesFailed(State) EXCEPT
        !.lastOp = Op("EnumerationFails", 0, "")])

DeviceNext ==
  \/ LoadDevices
  \/ TempStreamGranted
  \/ TempStreamRejected
  \/ DevicesEnumerated
  \/ EnumerationFails

DeviceSpec == DeviceInit /\ [][DeviceNext]_vars

\* ---- claims ----

\* Every variable but the history of the last task.
programVars ==
  <<isMounted, unmounted, mediaDevicesAvailable, isRecording,
    isTranscribing, selectedMicDevice, audioBlob, fetchesInFlight,
    mediaRecorderRef, audioChunksRef, streamRef, audioContextRef,
    analyserRef, audioDataRef, hasMeaningfulAudioRef,
    silentFramesCountRef, audioLevelCheckIntervalRef, nextRequest,
    stream, constraint, recorder, interval, audioContext, delivered,
    loud, monitor, emitted, pageIsMounted, electronAPI, clipboardAPI,
    isElectronMode, nextTranscription, transcription, ipcQueue, clipboard,
    platformDevices, enumeration, tempStream, returnedDevices>>

LiveStreams == {r \in Requests : stream[r] = "live"}
RecordingRecorders == {r \in Requests : recorder[r] = "recording"}
RunningTimers == {r \in Requests : interval[r]}

\* The session of recorder r has started and its stop callback has not run.
Undecided(r) == recorder[r] \in {"recording", "flushing", "stopping"}

\* A stop was accepted and the current recorder's stop callback is pending.
Finalizing ==
  /\ ~isRecording
  /\ mediaRecorderRef # 0
  /\ recorder[mediaRecorderRef] \in {"flushing", "stopping"}

\* C1: in every reachable state at most one granted stream is live.
C1_AtMostOneLiveStream == Cardinality(LiveStreams) <= 1

\* C2: a start signal while the orchestrator is Recording changes nothing
\* of the program: isRecording stays true, no getUserMedia call is made, and
\* the held stream, the recorder and every ref are as before.
C2_StartWhileRecordingIsNoOp ==
  [][(lastOp'.op = "StartSignal" /\ isRecording) => UNCHANGED programVars]_vars

\* C2 witness: a start signal was ignored while a live stream was being
\* recorded.
C2_Witness ==
  /\ lastOp.op = "StartSignal" /\ lastOp.info = "ignored"
  /\ isRecording
  /\ streamRef # 0 /\ stream[streamRef] = "live"
  /\ mediaRecorderRef = streamRef /\ recorder[mediaRecorderRef] = "recording"

\* C3: a start signal while the session is Finalizing starts nothing and
\* leaves the chunks, the latch and the stream of that session alone.
C3_StartWhileFinalizingIgnored ==
  [][(lastOp'.op = "StartSignal" /\ Finalizing) =>
        UNCHANGED <<isRecording, audioChunksRef, hasMeaningfulAudioRef,
                    streamRef, stream, nextRequest>>]_vars

\* C4: a stop signal while the orchestrator is not Recording changes nothing
\* of the program: no recorder stop, no artifact, every ref as before.
C4_StopWhileNotRecordingIsNoOp ==
  [][(lastOp'.op = "StopSignal" /\ ~isRecording) =>
        UNCHANGED programVars]_vars

\* C4 witness: a stop signal was ignored while not Recording, with a stream
\* still held by a session whose stop callback is pending.
C4_Witness ==
  /\ lastOp.op = "StopSignal" /\ lastOp.info = "ignored"
  /\ ~isRecording
  /\ Finalizing
  /\ streamRef # 0 /\ stream[streamRef] = "live"

\* C5: when the stop callback of a recorder has returned, the stream of that
\* recorder is released and the Recorder holds no live stream.
C5_StopCallbackReleasesStream ==
  lastOp.op = "OnStop" =>
    /\ stream[lastOp.r] # "live"
    /\ streamRef = 0 \/ stream[streamRef] # "live"

\* C6: after an unmount, once every pending callback has run, there is no
\* live stream, no recorder in the recording state and no sampling timer.
C6_UnmountReleasesEverything ==
  (/\ unmounted
   /\ \A r \in Requests :
        stream[r] # "pending" /\ recorder[r] \notin {"flushing", "stopping"})
  => (LiveStreams = {} /\ RecordingRecorders = {} /\ RunningTimers = {})

\* C7: when a stream request is rejected, or the media API is missing at a
\* start, the orchestrator is Idle afterwards, no stream is held, no recorder
\* records, no sampling timer runs, and no further request is made.
C7_FailedStartRevertsToIdle ==
  [][(/\ ~unmounted'
      /\ \/ lastOp'.op = "RejectStream"
         \/ /\ lastOp'.op = "StartSignal" /\ lastOp'.info = "accepted"
            /\ isMounted /\ ~mediaDevicesAvailable)
     => (/\ ~isRecording'
         /\ streamRef' = 0
         /\ \A r \in Requests :
              stream'[r] # "live" /\ recorder'[r] # "recording" /\ ~interval'[r]
         /\ lastOp'.op = "RejectStream" => nextRequest' = nextRequest)]_vars

\* C8: once a tick of a session's timer has computed a mean above the
\* threshold, hasMeaningfulAudio is true until that session's stop callback
\* has made the artifact decision.
C8_LatchMonotone ==
  \A r \in Requests : (loud[r] /\ Undecided(r)) => hasMeaningfulAudioRef

\* C9: the stop callback of a session none of whose ticks was above the
\* threshold hands the empty sentinel to onRecordingComplete.
C9_SilenceYieldsSentinel ==
  (lastOp.op = "OnStop" /\ ~loud[lastOp.r])
  => emitted = [rec |-> lastOp.r, blob |-> EmptyBlob]

\* C10: the stop callback of a session with at least one collected chunk
\* emits the empty sentinel exactly if the latch is false or the chunks
\* total less than 1000 bytes, and otherwise emits the non-empty fragments
\* its recorder delivered, in arrival order.
C10_ArtifactDecision ==
  [][(lastOp'.op = "OnStop" /\ Len(audioChunksRef) > 0) =>
       /\ emitted'.rec = lastOp'.r
       /\ emitted'.blob = EmptyBlob <=>
            (~hasMeaningfulAudioRef \/ BlobSize(audioChunksRef) < minBlobSize)
       /\ emitted'.blob # EmptyBlob => emitted'.blob = delivered[lastOp'.r]]_vars

\* C11: when a session stops with zero collected chunks, the stop callback
\* hands the empty artifact to onRecordingComplete, as in the silence case,
\* and the orchestrator is left Idle.
C11_ZeroChunksYieldSentinel ==
  (lastOp.op = "OnStop" /\ lastOp.info = "nochunks") =>
    /\ emitted = [rec |-> lastOp.r, blob |-> EmptyBlob]
    /\ unmounted \/ ~isRecording

\* C12: a stop callback that hands the empty artifact to onRecordingComplete
\* sends no request to the transcription endpoint: the number of requests
\* to /api/transcribe in flight is the same after the task as before it.
C12_SentinelNeverTranscribed ==
  [][(/\ lastOp'.op = "OnStop"
      /\ lastOp'.info # "nochunks"
      /\ emitted' = [rec |-> lastOp'.r, blob |-> EmptyBlob])
     => fetchesInFlight' = fetchesInFlight]_vars

\* The sentinel of a session that collected chunks has reached Home and the
\* Transcriber, and no request is in flight.
C12_Witness ==
  /\ lastOp.op = "OnStop" /\ lastOp.info = "sentinel"
  /\ Len(delivered[lastOp.r]) > 0
  /\ emitted = [rec |-> lastOp.r, blob |-> EmptyBlob]
  /\ audioBlob = [present |-> TRUE, parts |-> EmptyBlob]
  /\ fetchesInFlight = 0

\* No session is active: there is no recorder, or the recorder is inactive.
NoActiveSession ==
  mediaRecorderRef = 0 \/ recorder[mediaRecorderRef] # "recording"

\* Every variable of the program but Home's isRecording.
sessionVars ==
  <<isMounted, unmounted, mediaDevicesAvailable,
    isTranscribing, selectedMicDevice, audioBlob, fetchesInFlight,
    mediaRecorderRef, audioChunksRef, streamRef, audioContextRef,
    analyserRef, audioDataRef, hasMeaningfulAudioRef,
    silentFramesCountRef, audioLevelCheckIntervalRef, nextRequest,
    stream, constraint, recorder, interval, audioContext, delivered,
    loud, monitor, emitted, pageIsMounted, electronAPI, clipboardAPI,
    isElectronMode, nextTranscription, transcription, ipcQueue, clipboard,
    platformDevices, enumeration, tempStream, returnedDevices>>

\* C13 as stated: a stop signal that arrives when no session is active
\* leaves Home with the empty artifact, and stops no track and changes
\* neither the chunks, nor the latch, nor the orchestrator's state.
C13_StopWithoutSessionYieldsSentinel ==
  [][(lastOp'.op = "StopSignal" /\ NoActiveSession) =>
       /\ audioBlob' = [present |-> TRUE, parts |-> EmptyBlob]
       /\ UNCHANGED <<stream, audioChunksRef, hasMeaningfulAudioRef,
                      isRecording>>]_vars

\* C13 amended: when no session is active stopRecording changes nothing,
\* and a stop signal hands nothing to onRecordingComplete, stops no track,
\* leaves chunks and latch as they are and leaves the orchestrator Idle.
C13_StopWithoutSessionIsNoOp ==
  [][/\ NoActiveSession => stopRecording(State) = State
     /\ (lastOp'.op = "StopSignal" /\ NoActiveSession) =>
           (UNCHANGED sessionVars /\ ~isRecording')]_vars

\* A stop signal has arrived after the recorder had finished, while the
\* stream it recorded is still live.
C13_Witness ==
  /\ lastOp.op = "StopSignal"
  /\ mediaRecorderRef # 0 /\ recorder[mediaRecorderRef] = "done"
  /\ streamRef # 0 /\ stream[streamRef] = "live"

\* C14: teardown never calls stop on the tracks of a stream that has
\* already been released: a stop callback that reaches its release of the
\* stream, and the unmount cleanup, find the stream of streamRef live
\* whenever streamRef holds one.
C14_TeardownNeverReleasesTwice ==
  [][(/\ \/ lastOp'.op = "OnStop" /\ lastOp'.info # "nochunks"
         \/ lastOp'.op = "Unmount" /\ isMounted
      /\ streamRef # 0)
     => stream[streamRef] = "live"]_vars

\* The analysis graph of session r could not be constructed.
MonitorFailed(r) == monitor[r] \in {"noctx", "nosource"}

\* C15: when the analysis graph cannot be constructed the recorder is still
\* created and started, the latch stays false for as long as the session is
\* undecided, and the stop callback of the session hands the empty artifact
\* to onRecordingComplete.
C15_MonitorFailureDegradesToSilence ==
  [][/\ (lastOp'.op = "GrantStream"
           /\ lastOp'.info \in {"noctx", "nosource"})
          => /\ recorder'[lastOp'.r] = "recording"
             /\ mediaRecorderRef' = lastOp'.r
     /\ \A r \in Requests :
          (MonitorFailed(r) /\ Undecided(r)) => ~hasMeaningfulAudioRef
     /\ (lastOp'.op = "OnStop" /\ MonitorFailed(lastOp'.r))
          => emitted' = [rec |-> lastOp'.r, blob |-> EmptyBlob]]_vars

\* C16: once stopAudioLevelCheck has run (in a stop callback or in the
\* unmount cleanup) no sampling timer is still scheduled and no analysis
\* graph is still open; and stopAudioLevelCheck run a second time changes
\* nothing.
C16_StopMonitorCancelsSampling ==
  /\ (lastOp.op = "OnStop" \/ (lastOp.op = "Unmount" /\ isMounted)) =>
        /\ RunningTimers = {}
        /\ \A r \in Requests : audioContext[r] # "running"
        /\ analyserRef = 0
  /\ stopAudioLevelCheck(stopAudioLevelCheck(State))
        = stopAudioLevelCheck(State)

\* A start the platform can serve: the Recorder is not mounted yet, or
\* navigator.mediaDevices exists (without it an accepted start falls back
\* to Idle within the same task).
StartCanShow == ~isMounted \/ mediaDevicesAvailable

\* C17 as stated: which signals are accepted depends on isRecording alone: a
\* start signal changes isRecording exactly when the orchestrator is not
\* recording and a stop signal exactly when it is, whatever the state of
\* the transcription.
C17_SignalsDependOnOwnStateOnly ==
  [][/\ (lastOp'.op = "StartSignal" /\ StartCanShow) =>
           ((isRecording' # isRecording) <=> ~isRecording)
     /\ lastOp'.op = "StopSignal" =>
           ((isRecording' # isRecording) <=> isRecording)]_vars

\* C17 amended: a stop signal is accepted exactly when the orchestrator is
\* recording; a start signal is accepted exactly when it is not recording
\* and isTranscribing is false, and a refused signal changes nothing.
C17_StartBlockedWhileTranscribing ==
  [][/\ (lastOp'.op = "StartSignal" /\ StartCanShow) =>
           ((isRecording' # isRecording)
              <=> (~isRecording /\ ~isTranscribing))
     /\ (lastOp'.op = "StartSignal" /\ (isRecording \/ isTranscribing)) =>
           UNCHANGED programVars
     /\ lastOp'.op = "StopSignal" =>
           ((isRecording' # isRecording) <=> isRecording)
     /\ (lastOp'.op = "StopSignal" /\ ~isRecording) =>
           UNCHANGED programVars]_vars

\* A start signal has been refused in Idle while a request to the
\* transcription endpoint is in flight.
C17_Witness ==
  /\ lastOp.op = "StartSignal"
  /\ isMounted /\ mediaDevicesAvailable
  /\ ~isRecording /\ isTranscribing /\ fetchesInFlight > 0

Copies(id) == {i \in DOMAIN clipboard : clipboard[i].id = id}

\* The messages for the transcription id on their way to the main process.
Queued(id) == {i \in DOMAIN ipcQueue : ipcQueue[i].id = id}

\* The transcript of the transcription id has been handed exactly once, to
\* the clipboard of the mode the page runs in.
CopiedOnce(id) ==
  /\ Cardinality(Copies(id)) = 1
  /\ \A i \in Copies(id) :
       /\ clipboard[i].text = transcription[id].text
       /\ clipboard[i].sink =
            (IF isElectronMode THEN "electron" ELSE "browser")

\* C18 as stated: every transcription that has completed successfully leads
\* to its transcript being handed exactly once to the clipboard of the mode
\* the page runs in, and its transcript is never handed over twice.
C18_SuccessReachesClipboard ==
  /\ [](\A id \in Transcriptions :
          Cardinality(Copies(id)) + Cardinality(Queued(id)) <= 1)
  /\ \A id \in Transcriptions :
       (transcription[id].state = "succeeded") ~> CopiedOnce(id)

\* C18 amended: the same, provided the page runs in Electron mode or
\* navigator.clipboard exists; in a browser without navigator.clipboard the
\* transcript is handed to no clipboard at all.
C18_SuccessReachesAvailableClipboard ==
  /\ [](\A id \in Transcriptions :
          Cardinality(Copies(id)) + Cardinality(Queued(id))
            <= (IF isElectronMode \/ clipboardAPI THEN 1 ELSE 0))
  /\ \A id \in Transcriptions :
       (transcription[id].state = "succeeded"
          /\ (isElectronMode \/ clipboardAPI)) ~> CopiedOnce(id)

\* In Electron mode the main process has written the transcript of a
\* successful transcription to the clipboard.
C18_Witness ==
  \E id \in Transcriptions :
    /\ transcription[id].state = "succeeded"
    /\ isElectronMode
    /\ lastOp.op = "MainReceives" /\ lastOp.r = id
    /\ CopiedOnce(id)

\* The hardware identity of a device: the hardware id at the end of its
\* label when there is one, otherwise its label without the prefix
\* "Default - " or "Communications - ".
Identity(device) ==
  IF device.label.hw # NoHardwareId
  THEN [hw |-> device.label.hw, base |-> EmptyLabel]
  ELSE [hw |-> NoHardwareId, base |-> StripPrefix(device.label)]

\* C20: the list getAudioInputDevices resolves to holds at most one entry
\* per hardware identity.
C20_OneEntryPerIdentity ==
  enumeration = "returned" =>
    \A i, j \in DOMAIN returnedDevices :
      i # j => Identity(returnedDevices[i]) # Identity(returnedDevices[j])

\* The key under which filterDuplicateMicrophones remembers a device: the
\* hardware id at the end of its label when there is one, otherwise its
\* baseName, the label without the prefix and without "Microphone ".
DedupKey(device) ==
  IF device.label.hw # NoHardwareId
  THEN [hw |-> device.label.hw, base |-> EmptyLabel]
  ELSE [hw |-> NoHardwareId,
        base |-> StripMicrophone(StripPrefix(device.label))]

\* The keys of the devices of a list.
DedupKeys(devices) == {DedupKey(devices[i]) : i \in DOMAIN devices}

\* At most one device of each key is default-flagged.
OneDefaultPerKey(devices) ==
  \A i, j \in DOMAIN devices :
    (i # j /\ devices[i].isDefault /\ devices[j].isDefault)
      => DedupKey(devices[i]) # DedupKey(devices[j])

\* The list in the order given by a permutation of its indices.
Reordered(devices, order) == [i \in DOMAIN devices |-> devices[order[i]]]

PlatformIndex(device) ==
  CHOOSE i \in DOMAIN platformDevices :
    platformDevices[i].deviceId = device.deviceId

\* C22: in every returned list with a default-flagged entry the first entry
\* is default-flagged, no default-flagged entry follows an entry that is
\* not, and two entries that are both default-flagged or both not stand in
\* the order they have in the list of the platform.
C22_DefaultsFirstOrderKept ==
  (lastOp.op = "DevicesEnumerated"
     /\ \E i \in DOMAIN returnedDevices : returnedDevices[i].isDefault) =>
    /\ returnedDevices[1].isDefault
    /\ \A i, j \in DOMAIN returnedDevices :
         i < j =>
           /\ returnedDevices[j].isDefault => returnedDevices[i].isDefault
           /\ returnedDevices[i].isDefault = returnedDevices[j].isDefault
                => PlatformIndex(returnedDevices[i])
                     < PlatformIndex(returnedDevices[j])

\* The platform listed a microphone that is not default-flagged before two
\* that are, and all three were returned.
C22_Witness ==
  /\ lastOp.op = "DevicesEnumerated"
  /\ Len(platformDevices) = 3
  /\ Len(returnedDevices) = 3
  /\ ~AudioDevice(platformDevices[1]).isDefault
  /\ returnedDevices[1].isDefault
  /\ returnedDevices[2].isDefault

\* The places of the returned list that hold a device of the key.
KeptOfKey(key) ==
  {i \in DOMAIN returnedDevices : DedupKey(returnedDevices[i]) = key}

\* C23: of the enumerated devices of one key exactly one is returned, and
\* it is one whose label starts with "Default -" whenever a device of that
\* key has such a label, in whatever order the platform lists them.
C23_OneKeptPreferringDefaultLabel ==
  lastOp.op = "DevicesEnumerated" =>
    LET devices == audioInputDevices(platformDevices)
    IN  \A key \in DedupKeys(devices) :
          /\ Cardinality(KeptOfKey(key)) = 1
          /\ (\E i \in DOMAIN devices :
                 /\ DedupKey(devices[i]) = key
                 /\ StartsWithDefault(devices[i].label))
               => \A i \in KeptOfKey(key) :
                    StartsWithDefault(returnedDevices[i].label)

\* C24: getAudioInputDevices never rejects; when the media APIs are
\* missing, or the request of the temporary stream or enumerateDevices
\* fails, it resolves to the empty list.
C24_FailuresResolveToEmptyList ==
  /\ enumeration \in {"idle", "permission", "enumerating", "returned"}
  /\ (\/ lastOp.op = "LoadDevices" /\ ~mediaDevicesAvailable
      \/ lastOp.op = "TempStreamRejected"
      \/ lastOp.op = "EnumerationFails")
       => (enumeration = "returned" /\ returnedDevices = <<>>)

\* enumerateDevices failed on a platform with a microphone, and the call
\* resolved to the empty list.
C24_Witness ==
  /\ lastOp.op = "EnumerationFails"
  /\ \E i \in DOMAIN platformDevices : IsAudioInput(platformDevices[i])
  /\ enumeration = "returned"
  /\ returnedDevices = <<>>

\* C25: when getAudioInputDevices has completed, on whatever path, the
\* temporary stream it acquired to unlock the labels is not live any more.
C25_TempStreamReleasedOnReturn ==
  enumeration = "returned" => tempStream # "live"

\* The entry the example expects for A1 or B1, with the given flag.
ExampleEntry(device, displayName, isDefault) ==
  [deviceId |-> device.deviceId, label |-> device.label,
   displayName |-> displayName, isDefault |-> isDefault]

\* C26: for the devices A1 "Default - Mic (Realtek)(abcd:1234)", A2
\* "Mic (Realtek)(abcd:1234)" and B1 "USB Mic (ef01:5678)" the returned
\* list is A1 with displayName "Realtek" and isDefault true, then B1 with
\* displayName "USB Mic" and isDefault false.
C26_ExampleKeepsA1AsDefault ==
  (lastOp.op = "DevicesEnumerated" /\ platformDevices = ExampleDevices) =>
    returnedDevices =
      <<ExampleEntry(ExampleDevices[1], "Realtek", TRUE),
        ExampleEntry(ExampleDevices[3], "USB Mic", FALSE)>>

\* C26 amended: the returned list is A1 with displayName "Realtek" and B1
\* with displayName "USB Mic", both with isDefault false, because neither
\* device id is "default" or ""; A2 is dropped as a duplicate of A1's
\* hardware id.
C26_ExampleKeepsA1Unflagged ==
  (lastOp.op = "DevicesEnumerated" /\ platformDevices = ExampleDevices) =>
    returnedDevices =
      <<ExampleEntry(ExampleDevices[1], "Realtek", FALSE),
        ExampleEntry(ExampleDevices[3], "USB Mic", FALSE)>>

\* The three devices of the example were enumerated and two entries were
\* returned.
C26_Witness ==
  /\ lastOp.op = "DevicesEnumerated"
  /\ platformDevices = ExampleDevices
  /\ Len(returnedDevices) = 2

\* C27: whenever the orchestrator is Idle and no stop callback of a
\* recorder is pending, no stream is live and no recorder is recording; a
\* stream granted after the stop signal that followed its request starts
\* no recording.
C27_IdleHoldsNoSession ==
  (/\ ~isRecording
   /\ \A r \in Requests : recorder[r] \notin {"flushing", "stopping"})
  => (LiveStreams = {} /\ RecordingRecorders = {})

\* C28: the artifact a stop callback hands over for its session holds only
\* fragments that this session's recorder delivered, and it is the empty
\* artifact exactly if no tick of this session's timer was above the
\* threshold or this session's fragments total less than 1000 bytes;
\* fragments and latch values of another session play no part.
C28_SessionIsolation ==
  [][(lastOp'.op = "OnStop" /\ lastOp'.info # "nochunks") =>
       /\ emitted'.rec = lastOp'.r
       /\ \A i \in DOMAIN emitted'.blob :
            emitted'.blob[i].rec = lastOp'.r
       /\ emitted'.blob = EmptyBlob <=>
            (\/ ~loud[lastOp'.r]
             \/ BlobSize(delivered[lastOp'.r]) < minBlobSize)]_vars

\* C29: a tick above the threshold writes the latch whenever it runs, also
\* after stop() was called on the recorder, and the stop callback decides
\* on the latch as it is when the callback runs: with collected chunks it
\* hands over a non-empty artifact exactly if the latch is then true and
\* the chunks total at least 1000 bytes.
C29_DecisionUsesCurrentLatch ==
  [][/\ (lastOp'.op = "Tick" /\ lastOp'.info \in {"loud", "latched"})
          => hasMeaningfulAudioRef'
     /\ (lastOp'.op = "OnStop" /\ Len(audioChunksRef) > 0) =>
          /\ emitted'.rec = lastOp'.r
          /\ emitted'.blob # EmptyBlob <=>
               (/\ hasMeaningfulAudioRef
                /\ BlobSize(audioChunksRef) >= minBlobSize)]_vars

\* The only session was stopped while its latch was false, and a tick of
\* its timer has turned the latch to true while the stop callback, which
\* will find 1000 bytes of chunks, is still pending.
C29_Witness ==
  /\ lastOp.op = "Tick" /\ lastOp.info = "latched"
  /\ lastOp.r = 1 /\ nextRequest = 2
  /\ recorder[1] = "stopping"
  /\ hasMeaningfulAudioRef
  /\ BlobSize(audioChunksRef) >= minBlobSize

\* C30: whenever the tracks of a stream are stopped (by a stop callback, by
\* a start that releases the stream it still holds, or by the unmount
\* cleanup), the sampling timer and the analysis graph on that stream have
\* been released before.
C30_TapReleasedBeforeStream == tapAtRelease = {}

\* C31: when the stop callback of a session decides on the artifact, the
\* sampling timer of that session is cancelled and its analysis graph is
\* released, so that no tick of the session can run from the decision on.
C31_MonitorTornDownAtDecision ==
  lastOp.op = "OnStop" =>
    /\ ~interval[lastOp.r]
    /\ audioContext[lastOp.r] # "running"

\* C32: when the catch block of startRecording has run, because the stream
\* request was rejected or because something threw after the stream was
\* granted, no stream is live, no sampling timer is scheduled and the
\* orchestrator is Idle.
C32_FailedStartReleasesEverything ==
  (/\ ~unmounted
   /\ \/ lastOp.op = "RejectStream"
      \/ lastOp.op = "GrantStream" /\ lastOp.info = "throws")
  => (~isRecording /\ LiveStreams = {} /\ RunningTimers = {})

\* The transcription id completes successfully in this step.
Succeeds(id) ==
  /\ transcription[id].state = "streaming"
  /\ transcription'[id].state = "succeeded"

\* C33: the step in which a transcription completes successfully leaves
\* its transcript displayed, and while a completed transcription's
\* transcript is displayed, the debounce timer that one of its progress
\* updates scheduled does not change the displayed text when it fires.
C33_FinalTextStaysDisplayed ==
  [][\A id \in Transcriptions :
       /\ (Succeeds(id) /\ ~unmounted)
            => progressText' = transcription[id].text
       /\ (/\ transcription[id].state = "succeeded"
           /\ progressText = transcription[id].text
           /\ lastOp'.op = "ProgressTimer"
           /\ lastOp'.r = id)
            => progressText' = progressText]_vars

\* C34: every text that was handed to a clipboard, or is on its way to the
\* main process, is the transcript of a transcription that succeeded; a
\* failed transcription and the transcription of the empty blob hand over
\* nothing.
C34_OnlyTranscriptsReachClipboard ==
  /\ \A i \in DOMAIN clipboard :
       /\ transcription[clipboard[i].id].state = "succeeded"
       /\ clipboard[i].text = transcription[clipboard[i].id].text
  /\ \A i \in DOMAIN ipcQueue :
       /\ transcription[ipcQueue[i].id].state = "succeeded"
       /\ ipcQueue[i].text = transcription[ipcQueue[i].id].text

\* The transcription id has started and has not completed.
UnderWay(id) == transcription[id].state \in {"fetching", "streaming"}

\* onTranscriptionComplete has been called for the transcription id.
Completed(id) == transcription[id].state \in {"succeeded", "failed"}

\* C35: when every fetch returns, the transcriptions that have started
\* come to an end and isTranscribing is false from then on while the page
\* is mounted; a transcription that is under way ends only by its
\* completion, with its transcript or with an error text, a completed
\* transcription is never completed again, and once the last transcription
\* has completed isTranscribing is false.
C35_EveryAttemptCompletesOnce ==
  /\ <>[](/\ \A id \in Transcriptions : ~UnderWay(id)
          /\ ~isTranscribing \/ unmounted)
  /\ [][\A id \in Transcriptions :
          /\ UnderWay(id) => (UnderWay(id)' \/ Completed(id)')
          /\ Completed(id) => transcription'[id] = transcription[id]]_vars
  /\ [](\A id \in Transcriptions :
          (Completed(id) /\ ~unmounted /\ ~\E o \in Transcriptions : UnderWay(o))
            => ~isTranscribing)

\* A fetch was rejected, the transcription has been completed with an error
\* text and isTranscribing is false again.
C35_Witness ==
  \E id \in Transcriptions :
    /\ lastOp.op = "FetchResponds" /\ lastOp.r = id
    /\ lastOp.info = "rejected"
    /\ transcription[id].state = "failed"
    /\ progressText = ErrorText("rejected")
    /\ ~isTranscribing /\ ~unmounted

\* C36: when isRecording is false and no stream request of the visualizer
\* is pending, no stream that the visualizer obtained is live, no
\* AudioContext that it created is open and none of its silence-detection
\* timers is scheduled, whatever happened while its requests were pending.
C36_IdleVisualizerHoldsNothing ==
  (/\ ~isRecording
   /\ \A a \in VisualizerAttempts : visualizerAttempts[a].stream # "pending")
  => \A a \in VisualizerAttempts :
       /\ visualizerAttempts[a].stream # "live"
       /\ visualizerAttempts[a].context # "open"
       /\ ~visualizerAttempts[a].detector

\* The calls of setupAudioContext made in the effect run e, that is for one
\* recording with one microphone.
SetupCalls(e) ==
  {a \in VisualizerAttempts : visualizerAttempts[a].effect = e}

\* C37: in one recording the visualizer calls setupAudioContext at most
\* maxConnectionAttempts times, whatever makes the calls fail.
C37_RetriesAreBounded ==
  \A e \in VisualizerEffects :
    Cardinality(SetupCalls(e)) <= maxConnectionAttempts

\* The effect run of the current recording has raised the no-audio warning
\* and no other run's timer is scheduled.
WarningOfCurrentRun(a) ==
  /\ visualizer.noAudioDetected
  /\ isRecording /\ ~unmounted
  /\ visualizerAttempts[a].effect = visualizer.current
  /\ \A o \in VisualizerAttempts : visualizerAttempts[o].detector => o = a

\* The warning is raised in this step only by a silent check that brings
\* the count of consecutive silent checks above 6.
RaisedAfterSilence ==
  (~visualizer.noAudioDetected /\ visualizer.noAudioDetected')
    => /\ lastOp'.op = "SilenceCheck" /\ lastOp'.info = "silent"
       /\ visualizer.silenceDetectionCountRef' > silentChecksBeforeWarning

\* A check of the current recording that detects sound in this step while
\* the warning is shown clears the warning.
ClearedBySound ==
  \A a \in VisualizerAttempts :
    (/\ WarningOfCurrentRun(a)
     /\ lastOp'.op = "SilenceCheck" /\ lastOp'.r = a
     /\ lastOp'.info = "sound")
    => ~visualizer.noAudioDetected'

\* C38: the no-audio warning is raised only by a silent check that brings
\* the count of consecutive silent checks above 6, and a check of the
\* current recording that detects sound while the warning is shown clears
\* it.
C38_WarningAfterSilenceClearedBySound ==
  [][RaisedAfterSilence /\ ClearedBySound]_vars
====
